---------------------------- MODULE Spec2Model ----------------------------
(***************************************************************************)
(* State-machine model of the WebSocket bridge of wreq-js                  *)
(* (rust/src/lib.rs, rust/src/websocket.rs): the connection registry and   *)
(* handle counter, the per-connection pump and dispatcher tasks joined by  *)
(* a bounded mpsc channel, the credit semaphore, the neon channel that     *)
(* carries closures to the single JS thread, and the websocketSend /       *)
(* websocketClose calls.                                                   *)
(*                                                                         *)
(* The transport (wreq) and the JS consumer are the environment.  The      *)
(* i-th frame the transport yields on a connection carries payload i, so   *)
(* that reordering, loss and duplication are visible.                      *)
(*                                                                         *)
(* Connections share nothing but NEXT_WS_ID and WS_CONNECTIONS, so Init    *)
(* enumerates five classes of input (mode), each within its own bounds:    *)
(*   "stream"    one connection, any callbacks registered, whose stream is *)
(*               up to MaxFrames frames of any kind and then a terminator, *)
(*               and whose onMessage may throw;                            *)
(*   "calls"     one connection whose peer sends a Close frame at any      *)
(*               time, and up to MaxCalls websocketSend / websocketClose   *)
(*               calls made before, while and after its handle is          *)
(*               registered;                                               *)
(*   "connects"  up to MaxConnects concurrent connects without onClose and *)
(*               onError, whose streams stay silent but for the first,     *)
(*               which may end, and one call on any handle;                *)
(*   "senders"   one connection without callbacks whose stream stays silent, *)
(*               and up to MaxCalls calls on its handle;                   *)
(*   "flood"     one connection whose stream is FloodFrames Text frames    *)
(*               and then any terminator, while the JS thread is held busy *)
(*               until both tasks are blocked (queue full, no permit       *)
(*               left); then the JS thread runs again.                     *)
(***************************************************************************)
EXTENDS Integers, Sequences, FiniteSets, TLC

\* lib.rs:24  const WS_EVENT_BUFFER: usize = 64
WS_EVENT_BUFFER == 64

\* Bounds of the model.
MaxConnects == 2
MaxFrames == 2
MaxCalls == 2
FloodFrames == 130

Conns == 1..MaxConnects
Calls == 1..MaxCalls
\* Handles a caller may present: every handle that can be issued and one that never is.
Handles == 1..(MaxConnects + 1)

Modes == {"stream", "calls", "connects", "senders", "flood"}
\* The connect attempts, the calls and the handles of a class of input.
ConnectsOf(m) == IF m = "connects" THEN Conns ELSE {1}
CallsOf(m) ==
  IF m \in {"calls", "senders"} THEN Calls ELSE IF m = "connects" THEN {1} ELSE {}
HandlesOf(m) == IF m = "connects" THEN Handles ELSE {1}

\* Bounds of the headers model: the length of the headers list of a connect,
\* and the names and values its pairs are made of.
MaxHeaders == 3
HeaderNames == {"a", "b"}
HeaderValues == {"1", "2"}
HeaderPairs == HeaderNames \X HeaderValues
HeaderLists == UNION {[1..n -> HeaderPairs] : n \in 0..MaxHeaders}

\* Bounds of the session model: the session ids a caller names, the cookie
\* names a server sets, and the session operations made.
MaxSessions == 2
MaxCookies == 2
MaxSessionOps == 4

\* The ids a caller names, and every id a session can bear: those and the
\* generated ones.
SessionIds == 1..MaxSessions
SessionIdSpace == 1..(MaxSessions + MaxSessionOps + 1)
CookieNames == 1..MaxCookies
Profiles == {"chrome_142", "firefox_139"}
Proxies == {"", "http://proxy", "invalid"}
NoCall == [op |-> "", arg |-> <<>>, sid |-> 0, res |-> "", handle |-> 0, sent |-> {}]

ConnectErrors == {"proxy", "build", "upgrade", "handshake"}
\* The failures of a connect in a class of input: every failure point for
\* the single connection, one of them where several connects are made.
ConnectErrorsOf(m) == IF m = "connects" THEN {"upgrade"} ELSE ConnectErrors
NoEvent == [kind |-> "None", seq |-> 0]
CloseEvent == [kind |-> "Close", seq |-> 0]

VARIABLES
  mode,           \* class of input (see above)
  held,           \* the JS thread is busy and runs no queued closure
  nextId,         \* NEXT_WS_ID
  connections,    \* WS_CONNECTIONS: handle -> connection
  connPc,         \* position of each websocket_connect task
  connId,         \* the id store_connection returned to it (0: none)
  connErr,        \* the error connect_websocket failed with ("": none)
  onClose,        \* options.onClose is present
  onError,        \* options.onError is present
  nRead,          \* frames the pump has taken from the receiver
  pumpPc,         \* position of the pump task
  pumpEv,         \* the Text/Binary/Error event the pump is sending
  events,         \* the mpsc channel events_tx -> events_rx
  rxOpen,         \* events_rx has not been dropped
  dispPc,         \* position of the dispatcher task
  dispEv,         \* the event the dispatcher holds while it awaits a permit
  close_emitted,  \* the dispatcher's flag
  permits,        \* available permits of permits_consumer
  chan,           \* closures queued on the connection's neon Channel
  settled,        \* how the connect promise was settled, as seen by JS
  delivered,      \* history: callbacks the JS thread has invoked
  thrown,         \* history: the onMessage invocations that threw
  observed,       \* history: events the pump made from the frames it read
  dropped,        \* history: events whose send on events_tx failed
  pushed,         \* history: events the pump sent on events_tx, in order
  pings,          \* history: the frames read that were a Ping or a Pong
  callPc,         \* position of each websocketSend / websocketClose call
  callOp,         \* "send" | "close"
  callId,         \* the _id it was called with
  callData,       \* "text" | "binary": a JS string or a Buffer (send only)
  callConn,       \* the Arc<WsConnection> get_connection gave it (0: none)
  callRes,        \* what the call returned or its promise settled with
  sender,         \* holder of the connection's sender mutex (0: free)
  wire,           \* history: writes on the connection's SplitSink
  sessions,       \* the session registry: session id -> managed session
  nextClient,     \* identity of the next transport client to be built
  sessOps,        \* number of session operations made so far
  lastClear,      \* history: the operation that last cleared a session id
                  \* and the number of cookies it emptied
  sessCall,       \* history: the last session operation, its arguments and outcome
  hdrGiven,       \* the headers option of a connect: a list of <<name, value>>
  hdrPc,          \* position of that connect: "parse" | "apply" | "sent"
  hdrMap,         \* options.headers: an IndexMap, kept as its entries in order
  hdrSent         \* history: the request.header calls made on the upgrade request

connVars == <<nextId, connections, connPc, connId, connErr, onClose, onError>>
pumpVars == <<nRead, pumpPc, pumpEv, observed, dropped, pushed, pings>>
dispVars == <<dispPc, dispEv, close_emitted>>
jsVars == <<chan, settled, delivered, thrown>>
callVars == <<callPc, callOp, callId, callData, callConn, callRes, sender, wire>>
sessVars == <<sessions, nextClient, sessOps, lastClear, sessCall>>
wsVars == <<mode, held, connVars, pumpVars, events, rxOpen, dispVars, permits,
            jsVars, callVars>>
hdrVars == <<hdrGiven, hdrPc, hdrMap, hdrSent>>
vars == <<wsVars, sessVars, hdrVars>>

-----------------------------------------------------------------------------
(* The registry: websocket.rs                                              *)

\* websocket.rs:93-96
get_connection(id) == IF id \in DOMAIN connections THEN connections[id] ELSE 0

\* Mutant of remove_connection: the removal takes the older entries with it.
remove_connection_upto(id) ==
  [i \in {j \in DOMAIN connections : j > id} |-> connections[i]]

\* websocket.rs:99-102
remove_connection(id) == [i \in DOMAIN connections \ {id} |-> connections[i]]

\* websocket.rs:87-88  connections.insert(id, Arc::new(connection))
insert_connection(id, c) == [i \in DOMAIN connections \cup {id} |->
                               IF i = id THEN c ELSE connections[i]]

-----------------------------------------------------------------------------
\* The state of the process before any call, but for the class of input.
Start ==
  /\ held = (mode = "flood")
  /\ nextId = 1
  /\ connections = <<>>
  /\ connPc = [c \in Conns |-> "idle"]
  /\ connId = [c \in Conns |-> 0]
  /\ connErr = [c \in Conns |-> ""]
  /\ onClose = [c \in Conns |-> FALSE]
  /\ onError = [c \in Conns |-> FALSE]
  /\ nRead = [c \in Conns |-> 0]
  /\ pumpPc = [c \in Conns |-> "none"]
  /\ pumpEv = [c \in Conns |-> NoEvent]
  /\ events = [c \in Conns |-> <<>>]
  /\ rxOpen = [c \in Conns |-> TRUE]
  /\ dispPc = [c \in Conns |-> "none"]
  /\ dispEv = [c \in Conns |-> NoEvent]
  /\ close_emitted = [c \in Conns |-> FALSE]
  /\ permits = [c \in Conns |-> 0]
  /\ chan = [c \in Conns |-> <<>>]
  /\ settled = [c \in Conns |-> "pending"]
  /\ delivered = [c \in Conns |-> <<>>]
  /\ thrown = [c \in Conns |-> {}]
  /\ observed = [c \in Conns |-> <<>>]
  /\ dropped = [c \in Conns |-> <<>>]
  /\ pushed = [c \in Conns |-> <<>>]
  /\ pings = [c \in Conns |-> {}]
  /\ callPc = [k \in Calls |-> "idle"]
  /\ callOp = [k \in Calls |-> ""]
  /\ callId = [k \in Calls |-> 0]
  /\ callData = [k \in Calls |-> ""]
  /\ callConn = [k \in Calls |-> 0]
  /\ callRes = [k \in Calls |-> ""]
  /\ sender = [c \in Conns |-> 0]
  /\ wire = [c \in Conns |-> <<>>]
  /\ sessions = <<>>
  /\ nextClient = 1
  /\ sessOps = 0
  /\ lastClear = [i \in SessionIdSpace |-> [op |-> 0, cookies |-> 0]]
  /\ sessCall = NoCall
  /\ hdrPc = "parse"
  /\ hdrMap = <<>>
  /\ hdrSent = <<>>

Init == mode \in Modes /\ hdrGiven = <<>> /\ Start

-----------------------------------------------------------------------------
(* websocket_connect: lib.rs:326-532, websocket.rs:81-90, 105-145          *)

\* lib.rs:326-378, 531: the synchronous part reads the options and spawns
\* the connect task.  Attempts are taken in order of their index.
WebsocketConnect(c, oc, oe) ==
  /\ connPc[c] = "idle"
  /\ c \in ConnectsOf(mode)
  /\ \A d \in Conns : d < c => connPc[d] # "idle"
  /\ mode \in {"calls", "flood"} => (oc /\ oe)
  /\ mode \in {"connects", "senders"} => (~oc /\ ~oe)
  /\ connPc' = [connPc EXCEPT ![c] = "handshake"]
  /\ onClose' = [onClose EXCEPT ![c] = oc]
  /\ onError' = [onError EXCEPT ![c] = oe]
  /\ UNCHANGED <<hdrVars, sessVars, mode, held, nextId, connections, connId, connErr, pumpVars,
                 events, rxOpen, dispVars, permits, jsVars, callVars>>

\* Mutant of ConnectWebsocket: the id is taken before the handshake, so a
\* failed connect has advanced the counter.
ConnectWebsocketIdFirst(c) ==
  /\ connPc[c] = "handshake"
  /\ \/ /\ connPc' = [connPc EXCEPT ![c] = "store_id"]
        /\ UNCHANGED <<connErr, nextId>>
     \/ /\ mode \in {"stream", "connects"}
        /\ \E e \in ConnectErrorsOf(mode) : connErr' = [connErr EXCEPT ![c] = e]
        /\ connPc' = [connPc EXCEPT ![c] = "settle"]
        /\ nextId' = nextId + 1
  /\ UNCHANGED <<hdrVars, sessVars, mode, held, connections, connId, onClose, onError,
                 pumpVars, events, rxOpen, dispVars, permits, jsVars, callVars>>

\* websocket.rs:105-145: Proxy::all, build, send and into_websocket may each
\* fail; the `?` at lib.rs:380 then leaves the async block before
\* store_connection.
ConnectWebsocket(c) ==
  /\ connPc[c] = "handshake"
  /\ \/ /\ connPc' = [connPc EXCEPT ![c] = "store_id"]
        /\ UNCHANGED connErr
     \/ /\ mode \in {"stream", "connects"}
        /\ \E e \in ConnectErrorsOf(mode) : connErr' = [connErr EXCEPT ![c] = e]
        /\ connPc' = [connPc EXCEPT ![c] = "settle"]
  /\ UNCHANGED <<hdrVars, sessVars, mode, held, nextId, connections, connId, onClose, onError,
                 pumpVars, events, rxOpen, dispVars, permits, jsVars, callVars>>

\* Mutant of StoreConnectionId: the allocator hands out the lowest id the
\* registry does not hold.
StoreConnectionIdFreeSlot(c) ==
  /\ connPc[c] = "store_id"
  /\ LET free == CHOOSE i \in 1..nextId :
                   /\ i \notin DOMAIN connections
                   /\ \A j \in 1..(i - 1) : j \in DOMAIN connections
     IN /\ connId' = [connId EXCEPT ![c] = free]
        /\ nextId' = IF free = nextId THEN nextId + 1 ELSE nextId
  /\ connPc' = [connPc EXCEPT ![c] = "store_map"]
  /\ UNCHANGED <<hdrVars, sessVars, mode, held, connections, connErr, onClose, onError, pumpVars,
                 events, rxOpen, dispVars, permits, jsVars, callVars>>

\* websocket.rs:82-85: the id is taken and the counter advanced under the
\* NEXT_WS_ID lock.
StoreConnectionId(c) ==
  /\ connPc[c] = "store_id"
  /\ connId' = [connId EXCEPT ![c] = nextId]
  /\ nextId' = nextId + 1
  /\ connPc' = [connPc EXCEPT ![c] = "store_map"]
  /\ UNCHANGED <<hdrVars, sessVars, mode, held, connections, connErr, onClose, onError, pumpVars,
                 events, rxOpen, dispVars, permits, jsVars, callVars>>

\* websocket.rs:87-89: the insert, under the WS_CONNECTIONS lock.
StoreConnectionInsert(c) ==
  /\ connPc[c] = "store_map"
  /\ connections' = insert_connection(connId[c], c)
  /\ connPc' = [connPc EXCEPT ![c] = "spawn"]
  /\ UNCHANGED <<hdrVars, sessVars, mode, held, nextId, connId, connErr, onClose, onError,
                 pumpVars, events, rxOpen, dispVars, permits, jsVars, callVars>>

\* Mutant of SemaphoreNew: a pool one permit larger than the queue.
SemaphoreOneMore == WS_EVENT_BUFFER + 1

\* lib.rs:431  Semaphore::new(WS_EVENT_BUFFER)
SemaphoreNew == WS_EVENT_BUFFER

\* lib.rs:383-433: the channel is made, the pump is spawned, events_tx is
\* dropped, the semaphore is made and the dispatcher is spawned.
SpawnTasks(c) ==
  /\ connPc[c] = "spawn"
  /\ pumpPc' = [pumpPc EXCEPT ![c] = "read"]
  /\ dispPc' = [dispPc EXCEPT ![c] = "recv"]
  /\ permits' = [permits EXCEPT ![c] = SemaphoreNew]
  /\ connPc' = [connPc EXCEPT ![c] = "settle"]
  /\ UNCHANGED <<hdrVars, sessVars, mode, held, nextId, connections, connId, connErr, onClose,
                 onError, nRead, pumpEv, observed, dropped, pushed, pings, events,
                 rxOpen,
                 dispEv, close_emitted, jsVars, callVars>>

\* A closure queued on a neon Channel.
Closure(k, n, p) == [kind |-> k, seq |-> n, permit |-> p]

\* lib.rs:513-528: deferred.settle_with(&settle_channel, ..); settle_channel
\* is a clone of callbacks_channel (lib.rs:370-371).
SettleConnect(c) ==
  /\ connPc[c] = "settle"
  /\ chan' = [chan EXCEPT ![c] = Append(@, Closure("settle", connId[c], FALSE))]
  /\ connPc' = [connPc EXCEPT ![c] = "done"]
  /\ UNCHANGED <<hdrVars, sessVars, mode, held, nextId, connections, connId, connErr, onClose,
                 onError, pumpVars, events, rxOpen, dispVars, permits, settled,
                 delivered, thrown, callVars>>

-----------------------------------------------------------------------------
(* The pump task: lib.rs:386-423                                           *)

Terminators == {"Close", "Err", "End"}
FrameKinds == {"Text", "Binary", "Ping", "Pong"} \cup Terminators

\* What the transport may yield as frame number nRead[c] + 1.  The flood
\* starts once the connect task has queued its settle closure.
NextFrames(c) ==
  CASE mode = "flood" ->
         IF connPc[c] # "done" THEN {}
         ELSE IF nRead[c] < FloodFrames THEN {"Text"} ELSE Terminators
    [] mode \in {"stream", "abort"} ->
         IF nRead[c] < MaxFrames THEN FrameKinds ELSE Terminators
    [] mode = "calls" -> {"Close"}
    [] mode = "connects" -> IF c = 1 THEN {"End"} ELSE {}
    [] mode = "senders" -> {}

\* Mutant of TxOpen: events_tx is kept by the connect task, so a sender
\* outlives the pump.
TxOpenForever(c) == pumpPc[c] # "none"

\* The sender side of the mpsc channel is open while the pump holds
\* receiver_tx (events_tx itself is dropped at lib.rs:425).
TxOpen(c) == pumpPc[c] \notin {"none", "done"}

\* Mutant of PumpAfterControl: a Ping or a Pong ends the read loop.
PumpAfterControlBreak == "send_close_422"

\* lib.rs:411-413: the Ok(_) arm is empty; the loop reads the next frame.
PumpAfterControl == "read"

\* lib.rs:387-420: receiver.next() and the match on its result.
PumpRead(c) ==
  /\ pumpPc[c] = "read"
  /\ \E f \in NextFrames(c) :
       LET n == nRead[c] + 1 IN
       /\ nRead' = [nRead EXCEPT ![c] = n]
       /\ pings' = [pings EXCEPT ![c] = IF f \in {"Ping", "Pong"} THEN @ \cup {n} ELSE @]
       /\ CASE f \in {"Text", "Binary"} ->
                 /\ pumpEv' = [pumpEv EXCEPT ![c] = [kind |-> f, seq |-> n]]
                 /\ observed' = [observed EXCEPT ![c] = Append(@, [kind |-> f, seq |-> n])]
                 /\ pumpPc' = [pumpPc EXCEPT ![c] = "send_msg"]
            [] f \in {"Ping", "Pong"} ->
                 /\ pumpPc' = [pumpPc EXCEPT ![c] = PumpAfterControl]
                 /\ UNCHANGED <<pumpEv, observed>>
            [] f = "Close" ->
                 /\ pumpPc' = [pumpPc EXCEPT ![c] = "send_close_407"]
                 /\ UNCHANGED <<pumpEv, observed>>
            [] f = "Err" ->
                 /\ pumpEv' = [pumpEv EXCEPT ![c] = [kind |-> "Error", seq |-> n]]
                 /\ observed' = [observed EXCEPT ![c] = Append(@, [kind |-> "Error", seq |-> n])]
                 /\ pumpPc' = [pumpPc EXCEPT ![c] = "send_err_415"]
            [] f = "End" ->
                 /\ pumpPc' = [pumpPc EXCEPT ![c] = "send_close_422"]
                 /\ UNCHANGED <<pumpEv, observed>>
  /\ UNCHANGED <<hdrVars, sessVars, mode, held, connVars, dropped, pushed, events, rxOpen, dispVars,
                 permits, jsVars, callVars>>

\* Mutant of PumpAfterOk: no break after the Close frame's Close was sent.
PumpAfterOkNoBreak(pc) ==
  CASE pc = "send_msg" -> "read"
    [] pc = "send_close_407" -> "read"
    [] pc = "send_err_415" -> "send_close_416"
    [] pc = "send_close_416" -> "send_close_422"
    [] pc = "send_close_422" -> "done"

\* Mutant of PumpAfterOk: no break after the read error's Error and Close.
PumpAfterOkErrNoBreak(pc) ==
  CASE pc = "send_msg" -> "read"
    [] pc = "send_close_407" -> "send_close_422"
    [] pc = "send_err_415" -> "send_close_416"
    [] pc = "send_close_416" -> "read"
    [] pc = "send_close_422" -> "done"

\* Mutant of PumpAfterOk: the Close frame's arm falls into the error arm's
\* Close before it breaks.
PumpAfterOkCloseThrice(pc) ==
  CASE pc = "send_msg" -> "read"
    [] pc = "send_close_407" -> "send_close_416"
    [] pc = "send_err_415" -> "send_close_416"
    [] pc = "send_close_416" -> "send_close_422"
    [] pc = "send_close_422" -> "done"

\* Where the pump goes when receiver_tx.send(..).await returned Ok.
PumpAfterOk(pc) ==
  CASE pc = "send_msg" -> "read"                  \* lib.rs:390-396, 399-405
    [] pc = "send_close_407" -> "send_close_422"  \* lib.rs:408-409
    [] pc = "send_err_415" -> "send_close_416"    \* lib.rs:415
    [] pc = "send_close_416" -> "send_close_422"  \* lib.rs:416-417
    [] pc = "send_close_422" -> "done"            \* lib.rs:422-423

\* Where it goes when the send returned Err (the receiver is gone).
PumpAfterErr(pc) ==
  CASE pc = "send_msg" -> "send_close_422"        \* lib.rs:393-395 break
    [] pc = "send_close_407" -> "send_close_422"
    [] pc = "send_err_415" -> "send_close_416"
    [] pc = "send_close_416" -> "send_close_422"
    [] pc = "send_close_422" -> "done"

\* The event the pump is sending at pc.
PumpEvent(c) ==
  IF pumpPc[c] \in {"send_msg", "send_err_415"} THEN pumpEv[c] ELSE CloseEvent

\* Mutant of HasCapacity: an unbounded channel.
HasCapacityAlways(q) == TRUE

\* tokio mpsc Sender::send on a channel of capacity WS_EVENT_BUFFER: waits
\* while the queue is full.
HasCapacity(q) == Len(q) < WS_EVENT_BUFFER

\* Mutant of Enqueue: the event is put at the head of the queue.
EnqueueFront(q, e) == <<e>> \o q

\* The queue after a successful send.
Enqueue(q, e) == Append(q, e)

\* lib.rs:390-422: one receiver_tx.send(..).await.
PumpSend(c) ==
  /\ pumpPc[c] \in {"send_msg", "send_close_407", "send_err_415",
                    "send_close_416", "send_close_422"}
  /\ IF rxOpen[c]
     THEN /\ HasCapacity(events[c])
          /\ events' = [events EXCEPT ![c] = Enqueue(@, PumpEvent(c))]
          /\ pushed' = [pushed EXCEPT ![c] = Append(@, PumpEvent(c))]
          /\ pumpPc' = [pumpPc EXCEPT ![c] = PumpAfterOk(@)]
          /\ UNCHANGED dropped
     ELSE /\ dropped' = [dropped EXCEPT ![c] = Append(@, PumpEvent(c))]
          /\ pumpPc' = [pumpPc EXCEPT ![c] = PumpAfterErr(@)]
          /\ UNCHANGED <<events, pushed>>
  /\ pumpEv' = [pumpEv EXCEPT ![c] = NoEvent]
  /\ UNCHANGED <<hdrVars, sessVars, mode, held, connVars, nRead, observed, pings, rxOpen,
                 dispVars, permits, jsVars, callVars>>

\* lib.rs:386-423: the pump task ends where it stands, by a panic that
\* unwinds out of receiver.next() or by the runtime dropping the task:
\* receiver_tx is dropped and the Close of lib.rs:422 is not sent.  Only
\* the class "abort" has such a transport.
PumpAbort(c) ==
  /\ mode = "abort"
  /\ pumpPc[c] \notin {"none", "done"}
  /\ pumpPc' = [pumpPc EXCEPT ![c] = "done"]
  /\ pumpEv' = [pumpEv EXCEPT ![c] = NoEvent]
  /\ UNCHANGED <<hdrVars, sessVars, mode, held, connVars, nRead, observed, dropped, pushed,
                 pings,
                 events, rxOpen, dispVars, permits, jsVars, callVars>>

-----------------------------------------------------------------------------
(* The dispatcher task: lib.rs:433-511                                     *)

\* Mutant of CloseSuppressed: the flag is not consulted.
CloseSuppressedNever(c) == FALSE

\* lib.rs:482  if !close_emitted
CloseSuppressed(c) == close_emitted[c]

\* lib.rs:435-495: events_rx.recv() yields an event.  Error and Close are
\* handed to the JS channel at once; Text and Binary first await a permit.
DispRecv(c) ==
  /\ dispPc[c] = "recv"
  /\ events[c] # <<>>
  /\ LET e == Head(events[c]) IN
     /\ events' = [events EXCEPT ![c] = Tail(@)]
     /\ CASE e.kind \in {"Text", "Binary"} ->
               /\ dispEv' = [dispEv EXCEPT ![c] = e]
               /\ dispPc' = [dispPc EXCEPT ![c] = "acquire"]
               /\ UNCHANGED <<chan, close_emitted>>
          [] e.kind = "Error" ->
               /\ chan' = [chan EXCEPT ![c] =
                             IF onError[c] THEN Append(@, Closure("Error", e.seq, FALSE))
                             ELSE @]
               /\ UNCHANGED <<dispEv, dispPc, close_emitted>>
          [] e.kind = "Close" ->
               /\ chan' = [chan EXCEPT ![c] =
                             IF ~CloseSuppressed(c) /\ onClose[c]
                             THEN Append(@, Closure("Close", 0, FALSE))
                             ELSE @]
               /\ close_emitted' = [close_emitted EXCEPT ![c] = TRUE]
               /\ UNCHANGED <<dispEv, dispPc>>
  /\ UNCHANGED <<hdrVars, sessVars, mode, held, connVars, pumpVars, rxOpen, permits, settled,
                 delivered, thrown, callVars>>

\* Mutant of DispAcquire: the message is handed to the JS channel without
\* waiting for a permit, as Error and Close are.
DispAcquireNoPermit(c) ==
  /\ dispPc[c] = "acquire"
  /\ chan' = [chan EXCEPT ![c] = Append(@, Closure(dispEv[c].kind, dispEv[c].seq, FALSE))]
  /\ dispEv' = [dispEv EXCEPT ![c] = NoEvent]
  /\ dispPc' = [dispPc EXCEPT ![c] = "recv"]
  /\ UNCHANGED <<hdrVars, sessVars, mode, held, connVars, pumpVars, events, rxOpen,
                 close_emitted, permits, settled, delivered, thrown, callVars>>

\* lib.rs:438-450, 453-467: acquire_owned().await, then channel_clone.send
\* of a closure that owns the permit.
DispAcquire(c) ==
  /\ dispPc[c] = "acquire"
  /\ permits[c] > 0
  /\ permits' = [permits EXCEPT ![c] = @ - 1]
  /\ chan' = [chan EXCEPT ![c] = Append(@, Closure(dispEv[c].kind, dispEv[c].seq, TRUE))]
  /\ dispEv' = [dispEv EXCEPT ![c] = NoEvent]
  /\ dispPc' = [dispPc EXCEPT ![c] = "recv"]
  /\ UNCHANGED <<hdrVars, sessVars, mode, held, connVars, pumpVars, events, rxOpen,
                 close_emitted, settled, delivered, thrown, callVars>>

\* Mutant of DispEnd: no Close is synthesized when the loop is left.
DispEndNoClose(c) ==
  /\ dispPc[c] = "recv"
  /\ events[c] = <<>>
  /\ ~TxOpen(c)
  /\ dispPc' = [dispPc EXCEPT ![c] = "remove"]
  /\ UNCHANGED <<hdrVars, sessVars, mode, held, connVars, pumpVars, events, rxOpen, dispEv,
                 close_emitted, permits, jsVars, callVars>>

\* lib.rs:435, 498-508: recv() yields None once every sender is dropped and
\* the queue is empty; a Close is synthesized if none was emitted.
DispEnd(c) ==
  /\ dispPc[c] = "recv"
  /\ events[c] = <<>>
  /\ ~TxOpen(c)
  /\ chan' = [chan EXCEPT ![c] =
                IF ~close_emitted[c] /\ onClose[c]
                THEN Append(@, Closure("Close", 0, FALSE)) ELSE @]
  /\ dispPc' = [dispPc EXCEPT ![c] = "remove"]
  /\ UNCHANGED <<hdrVars, sessVars, mode, held, connVars, pumpVars, events, rxOpen, dispEv,
                 close_emitted, permits, settled, delivered, thrown,
                 callVars>>

\* lib.rs:510-511: remove_connection(id); the task ends and events_rx drops.
DispRemove(c) ==
  /\ dispPc[c] = "remove"
  /\ connections' = remove_connection(connId[c])
  /\ dispPc' = [dispPc EXCEPT ![c] = "done"]
  /\ rxOpen' = [rxOpen EXCEPT ![c] = FALSE]
  /\ UNCHANGED <<hdrVars, sessVars, mode, held, nextId, connPc, connId, connErr, onClose, onError,
                 pumpVars, events, dispEv, close_emitted, permits, jsVars,
                 callVars>>

-----------------------------------------------------------------------------
(* The JS thread                                                           *)

\* Mutant of ChannelNext: the JS thread takes the closure queued last.
ChannelNextLast(q) == Len(q)

\* lib.rs:370: a neon Channel hands its closures to the JS thread in the
\* order they were sent; the next one to run is the oldest.
ChannelNext(q) == 1

\* Mutant of PermitDropped: the closure forgets its permit instead of
\* dropping it.
PermitDroppedNever(cl, threw) == FALSE

\* Mutant of PermitDropped: the permit is given back after the callback
\* returned, and not when it threw.
PermitDroppedOnReturn(cl, threw) == cl.permit /\ ~threw

\* lib.rs:444, 459: `let _permit = permit;` the closure owns the permit,
\* which is dropped when the closure's scope ends, by Ok(()) or by the `?`
\* of cb.call (lib.rs:448, 465).
PermitDropped(cl, threw) == cl.permit

\* lib.rs:448, 465: cb.call(..)? the consumer's onMessage may throw.
Throws(cl) ==
  IF mode = "stream" /\ cl.kind \in {"Text", "Binary"} THEN BOOLEAN ELSE {FALSE}

\* The JS thread runs the closure at the head of a connection's Channel:
\* the settle closure (lib.rs:517-528) or a callback closure (lib.rs:443-450,
\* 458-467, 472-478, 485-490, 501-506).  A closure that owns a permit drops
\* it when it ends.
ConsumerRun(c) ==
  /\ ~held
  /\ chan[c] # <<>>
  /\ LET n == ChannelNext(chan[c])
         cl == chan[c][n] IN
     /\ chan' = [chan EXCEPT ![c] = SubSeq(@, 1, n - 1) \o SubSeq(@, n + 1, Len(@))]
     /\ IF cl.kind = "settle"
        THEN /\ settled' = [settled EXCEPT ![c] = IF connErr[c] = "" THEN "ok" ELSE "err"]
             /\ UNCHANGED <<delivered, permits, thrown>>
        ELSE /\ delivered' = [delivered EXCEPT ![c] = Append(@, [kind |-> cl.kind, seq |-> cl.seq])]
             /\ \E threw \in Throws(cl) :
                  /\ thrown' = [thrown EXCEPT ![c] = IF threw THEN @ \cup {cl.seq} ELSE @]
                  /\ permits' = [permits EXCEPT ![c] =
                                   IF PermitDropped(cl, threw) THEN @ + 1 ELSE @]
             /\ UNCHANGED settled
  /\ UNCHANGED <<hdrVars, sessVars, mode, held, connVars, pumpVars, events, rxOpen, dispVars,
                 callVars>>

\* Both tasks of the flooded connection are blocked: the pump on a full
\* queue, the dispatcher on an exhausted semaphore.
Saturated(c) ==
  /\ pumpPc[c] = "send_msg" /\ ~HasCapacity(events[c])
  /\ dispPc[c] = "acquire" /\ permits[c] = 0

\* The JS thread, held busy during the flood, becomes free.
ConsumerRelease ==
  /\ held
  /\ Saturated(1)
  /\ held' = FALSE
  /\ UNCHANGED <<hdrVars, sessVars, mode, connVars, pumpVars, events, rxOpen, dispVars, permits,
                 jsVars, callVars>>

-----------------------------------------------------------------------------
(* websocketSend and websocketClose: lib.rs:535-627, websocket.rs:46-75    *)

DataKinds == {"text", "binary"}
\* The payloads call k of a class of input may send: the first call of the
\* classes made of calls sends a string or a Buffer, every other send a
\* string.
DataOf(m, k) == IF m \in {"calls", "senders"} /\ k = 1 THEN DataKinds ELSE {"text"}

\* Mutant of Lookup: a handle once registered is found ever after.
LookupIssued(id) ==
  IF \E c \in Conns : connId[c] = id /\ connPc[c] \in {"spawn", "settle", "done"}
  THEN CHOOSE c \in Conns : connId[c] = id
  ELSE 0

\* lib.rs:544-547, 603-606: the lookup both calls start with.
Lookup(id) == get_connection(id)

\* lib.rs:535-564: the synchronous part of websocketSend on the JS thread:
\* the lookup, then the spawn.  The data is a string or a Buffer.
WebsocketSend(k, id, d) ==
  /\ ~held
  /\ k \in CallsOf(mode) /\ id \in HandlesOf(mode) /\ d \in DataOf(mode, k)
  /\ callPc[k] = "idle"
  /\ \A j \in Calls : j < k => callPc[j] # "idle"
  /\ callOp' = [callOp EXCEPT ![k] = "send"]
  /\ callId' = [callId EXCEPT ![k] = id]
  /\ callData' = [callData EXCEPT ![k] = d]
  /\ IF Lookup(id) = 0
     THEN /\ callRes' = [callRes EXCEPT ![k] = "not_found"]
          /\ callPc' = [callPc EXCEPT ![k] = "done"]
          /\ UNCHANGED callConn
     ELSE /\ callConn' = [callConn EXCEPT ![k] = Lookup(id)]
          /\ callPc' = [callPc EXCEPT ![k] = "spawned"]
          /\ UNCHANGED callRes
  /\ UNCHANGED <<hdrVars, sessVars, mode, held, connVars, pumpVars, events, rxOpen, dispVars,
                 permits, jsVars, sender, wire>>

\* lib.rs:595-611: the synchronous part of websocketClose.
WebsocketClose(k, id) ==
  /\ ~held
  /\ k \in CallsOf(mode) /\ id \in HandlesOf(mode)
  /\ callPc[k] = "idle"
  /\ \A j \in Calls : j < k => callPc[j] # "idle"
  /\ callOp' = [callOp EXCEPT ![k] = "close"]
  /\ callId' = [callId EXCEPT ![k] = id]
  /\ IF Lookup(id) = 0
     THEN /\ callRes' = [callRes EXCEPT ![k] = "not_found"]
          /\ callPc' = [callPc EXCEPT ![k] = "done"]
          /\ UNCHANGED callConn
     ELSE /\ callConn' = [callConn EXCEPT ![k] = Lookup(id)]
          /\ callPc' = [callPc EXCEPT ![k] = "spawned"]
          /\ UNCHANGED callRes
  /\ UNCHANGED <<hdrVars, sessVars, mode, held, connVars, pumpVars, events, rxOpen, dispVars,
                 permits, jsVars, callData, sender, wire>>

\* Mutant of SenderFree: the write is made without taking the lock.
SenderFreeAlways(c) == TRUE

\* websocket.rs:36, 42: the SplitSink is behind a tokio Mutex; lock() waits
\* while another call holds the guard.
SenderFree(c) == sender[c] = 0

\* websocket.rs:48, 58, 68: self.sender.lock().await
SenderLock(k) ==
  /\ callPc[k] = "spawned"
  /\ SenderFree(callConn[k])
  /\ sender' = [sender EXCEPT ![callConn[k]] = k]
  /\ callPc' = [callPc EXCEPT ![k] = "locked"]
  /\ UNCHANGED <<hdrVars, sessVars, mode, held, connVars, pumpVars, events, rxOpen, dispVars,
                 permits, jsVars, callOp, callId, callData, callConn, callRes,
                 wire>>

\* Mutant of MessageOf: a Buffer is written as a text message.
MessageOfText(k) == IF callOp[k] = "close" THEN "Close" ELSE "Text"

\* The message a call writes: websocket.rs:50, 60, 70.
MessageOf(k) ==
  IF callOp[k] = "close" THEN "Close"
  ELSE IF callData[k] = "text" THEN "Text" ELSE "Binary"

\* Mutant of AfterWrite: a failed close returns before the removal.
AfterWriteOkOnly(op, r) == IF op = "close" /\ r = "ok" THEN "remove" ELSE "settle"

\* Where a call goes after its write: websocketClose removes the connection
\* whatever the write returned (lib.rs:612-615).
AfterWrite(op, r) == IF op = "close" THEN "remove" ELSE "settle"

\* websocket.rs:49-53, 59-63, 69-73: sender.send(..).await under the lock;
\* the transport accepts the message or fails, and the guard is dropped.
SenderWrite(k) ==
  /\ callPc[k] = "locked"
  /\ \E r \in {"ok", "error"} :
       /\ wire' = [wire EXCEPT ![callConn[k]] =
                     Append(@, [call |-> k, msg |-> MessageOf(k), res |-> r])]
       /\ callRes' = [callRes EXCEPT ![k] = r]
       /\ callPc' = [callPc EXCEPT ![k] = AfterWrite(callOp[k], r)]
  /\ sender' = [sender EXCEPT ![callConn[k]] = 0]
  /\ UNCHANGED <<hdrVars, sessVars, mode, held, connVars, pumpVars, events, rxOpen, dispVars,
                 permits, jsVars, callOp, callId, callData, callConn>>

\* lib.rs:615: remove_connection(id) in the close task.
CloseRemove(k) ==
  /\ callPc[k] = "remove"
  /\ connections' = remove_connection(callId[k])
  /\ callPc' = [callPc EXCEPT ![k] = "settle"]
  /\ UNCHANGED <<hdrVars, sessVars, mode, held, nextId, connPc, connId, connErr, onClose, onError,
                 pumpVars, events, rxOpen, dispVars, permits, jsVars, callOp,
                 callId, callData, callConn, callRes, sender, wire>>

\* lib.rs:570-576, 617-623: the JS thread settles the call's promise.
CallSettle(k) ==
  /\ ~held
  /\ callPc[k] = "settle"
  /\ callPc' = [callPc EXCEPT ![k] = "done"]
  /\ UNCHANGED <<hdrVars, sessVars, mode, held, connVars, pumpVars, events, rxOpen, dispVars,
                 permits, jsVars, callOp, callId, callData, callConn, callRes,
                 sender, wire>>

-----------------------------------------------------------------------------
(* Sessions: createSession, clearSession, dropSession (lib.rs:269-323) and *)
(* the session manager they call                                           *)

\* generate_session_id: an id no caller names and no session bears.
GenerateSessionId == MaxSessions + nextClient

\* Mutant of SessionIdOf: the sessionId option is not read.
SessionIdOfGenerated(opt) == GenerateSessionId

\* lib.rs:295  session_id_opt.unwrap_or_else(generate_session_id); opt is 0
\* when the options carry no sessionId.
SessionIdOf(opt) == IF opt = 0 THEN GenerateSessionId ELSE opt

\* create_managed_session: an Active session is reused as it is; otherwise
\* a client is built, bound to the profile and the proxy, with an empty
\* cookie store, and registered; an invalid proxy is a configuration error.
CreateManagedResult(sid, proxy) ==
  IF sid \in DOMAIN sessions THEN "ok"
  ELSE IF proxy = "invalid" THEN "config_error" ELSE "ok"

CreateManagedSessions(sid, profile, proxy) ==
  IF sid \in DOMAIN sessions \/ proxy = "invalid" THEN sessions
  ELSE [i \in DOMAIN sessions \cup {sid} |->
          IF i = sid
          THEN [client |-> nextClient, profile |-> profile, proxy |-> proxy,
                cookies |-> {}]
          ELSE sessions[i]]

\* lib.rs:269-306: createSession returns the id the session manager
\* returned, or throws its error.
CreateSession(opt, profile, proxy) ==
  /\ sessOps < MaxSessionOps
  /\ LET sid == SessionIdOf(opt)
         res == CreateManagedResult(sid, proxy) IN
     /\ sessions' = CreateManagedSessions(sid, profile, proxy)
     /\ nextClient' = IF sessions' # sessions THEN nextClient + 1 ELSE nextClient
     /\ sessCall' = [op |-> "create", arg |-> <<opt, profile, proxy>>,
                     sid |-> sid, res |-> res,
                     handle |-> IF res = "ok" THEN sid ELSE 0, sent |-> {}]
  /\ sessOps' = sessOps + 1
  /\ UNCHANGED <<hdrVars, wsVars, lastClear>>

\* clear_managed_session: the cookie store of the session is emptied in
\* place; an unknown id is a not-found error.
ClearManagedResult(sid) == IF sid \in DOMAIN sessions THEN "ok" ELSE "not_found"

ClearManagedSessions(sid) ==
  IF sid \in DOMAIN sessions THEN [sessions EXCEPT ![sid].cookies = {}]
  ELSE sessions

\* Mutant of ClearSessionResult: the session manager's error is dropped.
ClearSessionResultIgnored(r) == "ok"

\* lib.rs:311-316: an Err of clear_managed_session is thrown.
ClearSessionResult(r) == r

\* lib.rs:308-317
ClearSession(sid) ==
  /\ sessOps < MaxSessionOps
  /\ sessions' = ClearManagedSessions(sid)
  /\ lastClear' = IF sid \in DOMAIN sessions
                   THEN [lastClear EXCEPT ![sid] =
                           [op |-> sessOps + 1,
                            cookies |-> Cardinality(sessions[sid].cookies)]]
                   ELSE lastClear
  /\ sessCall' = [op |-> "clear", arg |-> <<sid>>, sid |-> sid,
                  res |-> ClearSessionResult(ClearManagedResult(sid)),
                  handle |-> 0, sent |-> {}]
  /\ sessOps' = sessOps + 1
  /\ UNCHANGED <<hdrVars, wsVars, nextClient>>

\* drop_managed_session: the session is removed if there is one.
DropManagedSessions(sid) == [i \in DOMAIN sessions \ {sid} |-> sessions[i]]

\* Mutant of DropSessionResult: an unknown id is reported, as clearSession
\* reports it.
DropSessionResultChecked(found) == IF found THEN "ok" ELSE "not_found"

\* lib.rs:321-322: drop_managed_session returns nothing and dropSession
\* returns undefined.
DropSessionResult(found) == "ok"

\* lib.rs:319-323
DropSession(sid) ==
  /\ sessOps < MaxSessionOps
  /\ sessions' = DropManagedSessions(sid)
  /\ sessCall' = [op |-> "drop", arg |-> <<sid>>, sid |-> sid,
                  res |-> DropSessionResult(sid \in DOMAIN sessions),
                  handle |-> 0, sent |-> {}]
  /\ sessOps' = sessOps + 1
  /\ UNCHANGED <<hdrVars, wsVars, nextClient, lastClear>>

\* A request under a session: the session's client sends the cookies of
\* its store and stores the cookie the response sets (0: none).  A request
\* under an id that names no session uses a client of its own.
Request(sid, setc) ==
  /\ sessOps < MaxSessionOps
  /\ IF sid \in DOMAIN sessions
     THEN /\ sessCall' = [op |-> "request", arg |-> <<sid>>, sid |-> sid, res |-> "ok",
                          handle |-> 0, sent |-> sessions[sid].cookies]
          /\ sessions' =
               IF setc = 0 THEN sessions
               ELSE [sessions EXCEPT ![sid].cookies =
                       {k \in @ : k.name # setc}
                         \cup {[name |-> setc, stamp |-> sessOps + 1]}]
     ELSE /\ sessCall' = [op |-> "request", arg |-> <<sid>>, sid |-> sid, res |-> "ok",
                          handle |-> 0, sent |-> {}]
          /\ UNCHANGED sessions
  /\ sessOps' = sessOps + 1
  /\ UNCHANGED <<hdrVars, wsVars, nextClient, lastClear>>

-----------------------------------------------------------------------------
(* The headers of a connect: lib.rs:56-68, 343-366, websocket.rs:125-128   *)

\* IndexMap::insert: the value of a key the map holds is replaced where the
\* entry stands; a new key is appended.
IndexMapInsert(m, name, value) ==
  IF \E i \in 1..Len(m) : m[i][1] = name
  THEN [i \in 1..Len(m) |-> IF m[i][1] = name THEN <<name, value>> ELSE m[i]]
  ELSE Append(m, <<name, value>>)

\* lib.rs:56-68: the tuples of the array are inserted one after another
\* into a new IndexMap (the first n tuples of array).
RECURSIVE ParseHeadersUpTo(_, _)
ParseHeadersUpTo(array, n) ==
  IF n = 0 THEN <<>>
  ELSE IndexMapInsert(ParseHeadersUpTo(array, n - 1), array[n][1], array[n][2])

parse_headers_from_array(array) == ParseHeadersUpTo(array, Len(array))

\* lib.rs:343-366: websocket_connect parses the headers option and puts the
\* map into WebSocketOptions.
ParseHeaders ==
  /\ mode = "headers"
  /\ hdrPc = "parse"
  /\ hdrMap' = parse_headers_from_array(hdrGiven)
  /\ hdrPc' = "apply"
  /\ UNCHANGED <<wsVars, sessVars, hdrGiven, hdrSent>>

\* websocket.rs:125-128: one request.header call per entry of the map, in
\* the order the map iterates.
ApplyHeaders ==
  /\ mode = "headers"
  /\ hdrPc = "apply"
  /\ hdrSent' = hdrSent \o hdrMap
  /\ hdrPc' = "sent"
  /\ UNCHANGED <<wsVars, sessVars, hdrGiven, hdrMap>>

-----------------------------------------------------------------------------
Next ==
  \/ \E c \in Conns, oc \in BOOLEAN, oe \in BOOLEAN : WebsocketConnect(c, oc, oe)
  \/ \E c \in Conns : ConnectWebsocket(c)
  \/ \E c \in Conns : StoreConnectionId(c)
  \/ \E c \in Conns : StoreConnectionInsert(c)
  \/ \E c \in Conns : SpawnTasks(c)
  \/ \E c \in Conns : SettleConnect(c)
  \/ \E c \in Conns : PumpRead(c)
  \/ \E c \in Conns : PumpSend(c)
  \/ \E c \in Conns : DispRecv(c)
  \/ \E c \in Conns : DispAcquire(c)
  \/ \E c \in Conns : DispEnd(c)
  \/ \E c \in Conns : DispRemove(c)
  \/ \E c \in Conns : ConsumerRun(c)
  \/ ConsumerRelease
  \/ \E k \in Calls, id \in Handles, d \in DataKinds : WebsocketSend(k, id, d)
  \/ \E k \in Calls, id \in Handles : WebsocketClose(k, id)
  \/ \E k \in Calls : SenderLock(k)
  \/ \E k \in Calls : SenderWrite(k)
  \/ \E k \in Calls : CloseRemove(k)
  \/ \E k \in Calls : CallSettle(k)

Spec == Init /\ [][Next]_vars

\* One connection and its consumer, no calls: the classes "stream" and
\* "flood".  The tokio runtime schedules the pump and the dispatcher
\* whenever they can run; the JS thread, unless held, runs the closures
\* queued on the Channel.
StreamInit == Init /\ mode \in {"stream", "flood"}

StreamNext ==
  \/ \E c \in Conns, oc \in BOOLEAN, oe \in BOOLEAN : WebsocketConnect(c, oc, oe)
  \/ \E c \in Conns : ConnectWebsocket(c)
  \/ \E c \in Conns : StoreConnectionId(c)
  \/ \E c \in Conns : StoreConnectionInsert(c)
  \/ \E c \in Conns : SpawnTasks(c)
  \/ \E c \in Conns : SettleConnect(c)
  \/ \E c \in Conns : PumpRead(c)
  \/ \E c \in Conns : PumpSend(c)
  \/ \E c \in Conns : DispRecv(c)
  \/ \E c \in Conns : DispAcquire(c)
  \/ \E c \in Conns : DispEnd(c)
  \/ \E c \in Conns : DispRemove(c)
  \/ \E c \in Conns : ConsumerRun(c)
  \/ ConsumerRelease

StreamFairness ==
  \A c \in ConnectsOf("stream") :
    /\ WF_vars(PumpSend(c))
    /\ WF_vars(DispRecv(c))
    /\ WF_vars(DispAcquire(c))
    /\ WF_vars(DispEnd(c))
    /\ WF_vars(DispRemove(c))
    /\ WF_vars(ConsumerRun(c))

StreamSpec == StreamInit /\ [][StreamNext]_vars /\ StreamFairness

\* One connection with a silent stream and the calls made on its handle:
\* the class "senders".  The runtime runs a spawned call's task whenever
\* it can run, and the tokio Mutex hands the lock to a waiter once it is
\* free.
SendersInit == Init /\ mode = "senders"

SendersNext ==
  \/ \E c \in Conns, oc \in BOOLEAN, oe \in BOOLEAN : WebsocketConnect(c, oc, oe)
  \/ \E c \in Conns : ConnectWebsocket(c)
  \/ \E c \in Conns : StoreConnectionId(c)
  \/ \E c \in Conns : StoreConnectionInsert(c)
  \/ \E c \in Conns : SpawnTasks(c)
  \/ \E c \in Conns : SettleConnect(c)
  \/ \E c \in Conns : ConsumerRun(c)
  \/ \E k \in Calls, id \in Handles, d \in DataKinds : WebsocketSend(k, id, d)
  \/ \E k \in Calls, id \in Handles : WebsocketClose(k, id)
  \/ \E k \in Calls : SenderLock(k)
  \/ \E k \in Calls : SenderWrite(k)
  \/ \E k \in Calls : CloseRemove(k)
  \/ \E k \in Calls : CallSettle(k)

SendersFairness ==
  \A k \in Calls : WF_vars(SenderLock(k)) /\ WF_vars(SenderWrite(k))

SendersSpec == SendersInit /\ [][SendersNext]_vars /\ SendersFairness

\* The session operations, made one at a time on the JS thread, on the
\* ids a caller names and the ids createSession returned.
SessionInit == mode = "sessions" /\ hdrGiven = <<>> /\ Start

SessionNext ==
  \/ \E opt \in SessionIds \cup {0}, pf \in Profiles, px \in Proxies :
       CreateSession(opt, pf, px)
  \/ \E sid \in SessionIds \cup DOMAIN sessions : ClearSession(sid)
  \/ \E sid \in SessionIds \cup DOMAIN sessions : DropSession(sid)
  \/ \E sid \in SessionIds \cup DOMAIN sessions, setc \in CookieNames \cup {0} :
       Request(sid, setc)

SessionSpec == SessionInit /\ [][SessionNext]_vars

\* The headers of one connect, from the option to the upgrade request.
HeadersInit == mode = "headers" /\ hdrGiven \in HeaderLists /\ Start

HeadersNext ==
  \/ ParseHeaders
  \/ ApplyHeaders

HeadersSpec == HeadersInit /\ [][HeadersNext]_vars

\* One connection whose pump task may end without sending its Close: the
\* class "abort".
AbortInit == mode = "abort" /\ hdrGiven = <<>> /\ Start

AbortNext ==
  \/ \E c \in Conns, oc \in BOOLEAN, oe \in BOOLEAN : WebsocketConnect(c, oc, oe)
  \/ \E c \in Conns : ConnectWebsocket(c)
  \/ \E c \in Conns : StoreConnectionId(c)
  \/ \E c \in Conns : StoreConnectionInsert(c)
  \/ \E c \in Conns : SpawnTasks(c)
  \/ \E c \in Conns : SettleConnect(c)
  \/ \E c \in Conns : PumpRead(c)
  \/ \E c \in Conns : PumpSend(c)
  \/ \E c \in Conns : PumpAbort(c)
  \/ \E c \in Conns : DispRecv(c)
  \/ \E c \in Conns : DispAcquire(c)
  \/ \E c \in Conns : DispEnd(c)
  \/ \E c \in Conns : DispRemove(c)
  \/ \E c \in Conns : ConsumerRun(c)

AbortSpec == AbortInit /\ [][AbortNext]_vars

-----------------------------------------------------------------------------
(* What the consumer is handed                                             *)

IsPrefix(s, t) == Len(s) <= Len(t) /\ SubSeq(t, 1, Len(s)) = s
Count(s, k) == Len(SelectSeq(s, LAMBDA e : e.kind = k))
NonClose(s) == SelectSeq(s, LAMBDA e : e.kind # "Close")
Messages(s) == SelectSeq(s, LAMBDA e : e.kind \in {"Text", "Binary"})

\* The callback closures queued on the connection's Channel and not yet run.
Pending(c) ==
  LET q == SelectSeq(chan[c], LAMBDA x : x.kind # "settle")
  IN [i \in 1..Len(q) |-> [kind |-> q[i].kind, seq |-> q[i].seq]]

\* Every event handed to the consumer so far, in the order it was handed:
\* the callbacks already invoked, then those still queued.
Handed(c) == delivered[c] \o Pending(c)

\* Events in flight: handed by the dispatcher, callback not yet returned.
InFlight(c) == Len(Pending(c))
MessagesInFlight(c) == Len(Messages(Pending(c)))

\* The events the pump made that the consumer has a callback for.
Expected(c) == SelectSeq(observed[c], LAMBDA e : e.kind # "Error" \/ onError[c])

-----------------------------------------------------------------------------
(* Claims                                                                  *)

\* C1: a connection opened with onClose is handed onClose at most once at
\* any time, and exactly once by the time its dispatcher task has ended.
C1_CloseExactlyOnce ==
  \A c \in Conns :
    onClose[c] =>
      LET n == Count(Handed(c), "Close") IN
      /\ n <= 1
      /\ dispPc[c] = "done" => n = 1

\* C1 witness: the dispatcher of a connection with onClose has ended after
\* the pump pushed Close twice behind an Error, and one Close was handed.
C1_Witness ==
  /\ onClose[1] /\ dispPc[1] = "done"
  /\ Count(observed[1], "Error") = 1
  /\ Count(Handed(1), "Close") = 1

\* C2: once onClose has been handed to the consumer, nothing else of that
\* connection is handed: a Close is the last entry of what was handed.
C2_NothingAfterClose ==
  \A c \in Conns :
    LET h == Handed(c) IN
    \A i \in 1..Len(h) : h[i].kind = "Close" => i = Len(h)

\* C2 witness: messages were handed, then the Close, and the dispatcher went
\* on to drain the pump's second Close and ended.
C2_Witness ==
  /\ dispPc[1] = "done"
  /\ Len(Handed(1)) = 3
  /\ Handed(1)[3].kind = "Close"
  /\ pumpPc[1] = "done" /\ nRead[1] = 3

\* C3: the Text/Binary/Error callbacks of a connection are invoked in the
\* order the pump read the frames: what was handed is a prefix of what the
\* pump observed, and all of it once the dispatcher has ended.
C3_DeliveryOrder ==
  \A c \in Conns :
    LET h == NonClose(Handed(c))
        e == Expected(c) IN
    /\ IsPrefix(h, e)
    /\ dispPc[c] = "done" => h = e

\* C3 witness: two messages and an Error were read, in that order, and all
\* three callbacks have been invoked.
C3_Witness ==
  /\ onError[1]
  /\ Len(observed[1]) = 3 /\ observed[1][3].kind = "Error"
  /\ NonClose(delivered[1]) = observed[1]

MessageOutstanding(c) ==
  pumpPc[c] = "send_msg" \/ Messages(events[c]) # <<>>

\* A step that moves an event along the connection's pipeline: a send by
\* the pump, a recv or an acquire by the dispatcher, a callback run.
PipelineStep(c) ==
  PumpSend(c) \/ DispRecv(c) \/ DispAcquire(c) \/ ConsumerRun(c)

\* The Text/Binary events of a connection, from the oldest handed to the
\* one in the pump's hand.
MessagesInPipeline(c) ==
  Messages(Handed(c))
    \o (IF dispPc[c] = "acquire" THEN <<dispEv[c]>> ELSE <<>>)
    \o Messages(events[c])
    \o (IF pumpPc[c] = "send_msg" THEN <<pumpEv[c]>> ELSE <<>>)

C6_SendAfterOnCloseNotFound ==
  [][\A k \in Calls, c \in Conns :
       ( /\ callPc[k] = "idle" /\ callPc'[k] # "idle" /\ callOp'[k] = "send"
         /\ callId'[k] = connId[c]
         /\ settled[c] = "ok"
         /\ Count(delivered[c], "Close") > 0
         /\ \A j \in Calls : callOp[j] # "close" )
       => callRes'[k] = "not_found"]_vars

\* The writes call k made on connection c's sender.
WritesOf(k, c) == SelectSeq(wire[c], LAMBDA w : w.call = k)

\* A call is started by this step.
Starts(k, op) == callPc[k] = "idle" /\ callPc'[k] # "idle" /\ callOp'[k] = op

\* C7 (states): a send that returned not-found wrote to no sender; a send
\* that found its handle wrote its payload once, to the sender of the
\* connection registered under that handle, and returns what the write
\* returned.
C7_SendWrites ==
  \A k \in Calls :
    callOp[k] = "send" =>
      /\ callRes[k] = "not_found" =>
           callPc[k] = "done" /\ \A c \in Conns : WritesOf(k, c) = <<>>
      /\ (callPc[k] = "done" /\ callRes[k] # "not_found") =>
           /\ connId[callConn[k]] = callId[k]
           /\ callRes[k] \in {"ok", "error"}
           /\ WritesOf(k, callConn[k]) =
                << [call |-> k,
                    msg |-> IF callData[k] = "text" THEN "Text" ELSE "Binary",
                    res |-> callRes[k]] >>
           /\ \A c \in Conns \ {callConn[k]} : WritesOf(k, c) = <<>>

\* C7 (steps): send on a handle that is not registered returns not-found at
\* once and changes neither a sender nor the registry; on a registered
\* handle it goes on with the registered connection.
C7_SendStep ==
  \A k \in Calls :
    Starts(k, "send") =>
      IF callId'[k] \notin DOMAIN connections
      THEN /\ callRes'[k] = "not_found" /\ callPc'[k] = "done"
           /\ wire' = wire /\ sender' = sender /\ connections' = connections
      ELSE /\ callPc'[k] = "spawned"
           /\ callConn'[k] = connections[callId'[k]]
           /\ connections' = connections

\* C7: send fails with not-found on an unregistered handle, writing nothing
\* and leaving the registry as it is, and forwards the payload and returns
\* the transport's result on a registered one.
C7_Send == []C7_SendWrites /\ [][C7_SendStep]_vars

\* C7 witness: one send was forwarded and returned the transport's error;
\* a later send, after the dispatcher removed the handle, got not-found.
C7_Witness ==
  /\ callOp[1] = "send" /\ callPc[1] = "done" /\ callRes[1] = "error"
  /\ callOp[2] = "send" /\ callPc[2] = "done" /\ callRes[2] = "not_found"
  /\ callId[1] = callId[2]
  /\ dispPc[1] = "done"

\* C8: a close that found its handle writes a close frame and then removes
\* the handle, whatever the write returned: once the call has completed the
\* handle is not in the registry.
C8_CloseRemoves ==
  \A k \in Calls :
    (callOp[k] = "close" /\ callRes[k] \in {"ok", "error"}) =>
      /\ WritesOf(k, callConn[k]) =
           << [call |-> k, msg |-> "Close", res |-> callRes[k]] >>
      /\ callPc[k] \in {"remove", "settle", "done"}
      /\ callPc[k] \in {"settle", "done"} => callId[k] \notin DOMAIN connections

\* C8 witness: a close whose write failed has completed, on a connection
\* whose dispatcher had already ended and removed the handle.
C8_Witness ==
  \E k \in Calls :
    /\ callOp[k] = "close" /\ callPc[k] = "done" /\ callRes[k] = "error"
    /\ dispPc[callConn[k]] = "done"
    /\ callId[k] \notin DOMAIN connections

\* C9 (steps): close on a handle that is not registered returns not-found
\* at once, writes no close frame and hands the consumer nothing.
C9_CloseStep ==
  \A k \in Calls :
    (Starts(k, "close") /\ callId'[k] \notin DOMAIN connections) =>
      /\ callRes'[k] = "not_found" /\ callPc'[k] = "done"
      /\ wire' = wire /\ chan' = chan /\ events' = events

\* C9 (states): a close that returned not-found wrote nothing, and no
\* connection is ever handed a second Close.
C9_CloseWrites ==
  /\ \A k \in Calls :
       (callOp[k] = "close" /\ callRes[k] = "not_found") =>
         callPc[k] = "done" /\ \A c \in Conns : WritesOf(k, c) = <<>>
  /\ \A c \in Conns : Count(Handed(c), "Close") <= 1

C10_FailedConnectState ==
  /\ \A c \in Conns :
       connErr[c] # "" =>
         /\ connId[c] = 0
         /\ pumpPc[c] = "none" /\ dispPc[c] = "none"
         /\ settled[c] \in {"pending", "err"}
         /\ (connPc[c] = "done" /\ chan[c] = <<>>) => settled[c] = "err"
  /\ nextId = 1 + Cardinality({c \in Conns : connId[c] # 0})
  /\ \A id \in DOMAIN connections :
       \E c \in Conns : connId[c] = id /\ connErr[c] = "" /\ connections[id] = c

\* C10 (steps): the step in which connect fails changes neither the
\* counter nor the registry and spawns nothing.
C10_FailedConnectStep ==
  \A c \in Conns :
    (connErr[c] = "" /\ connErr'[c] # "") =>
      UNCHANGED <<nextId, connections, connId, pumpPc, dispPc>>

\* C10: a failed connect allocates no handle, creates no registry entry,
\* spawns no task and returns an error.
C10_FailedConnect == []C10_FailedConnectState /\ [][C10_FailedConnectStep]_vars

\* C10 witness: the first connect failed and was rejected; the second one,
\* started while the first was in its handshake, got handle 1.
C10_Witness ==
  /\ connErr[1] # "" /\ settled[1] = "err"
  /\ connId[2] = 1 /\ 1 \in DOMAIN connections
  /\ nextId = 2

\* C11 (states): the handles issued so far are pairwise distinct and below
\* the counter.
C11_HandlesDistinct ==
  /\ \A c, d \in Conns :
       (c # d /\ connId[c] # 0 /\ connId[d] # 0) => connId[c] # connId[d]
  /\ \A c \in Conns : connId[c] < nextId

\* C11 (steps): a handle, when issued, is greater than every handle issued
\* before it (registered still or removed since) and is not in the
\* registry; a handle once issued to a connect stays its handle, and the
\* counter never goes back.
C11_HandleStep ==
  /\ nextId' >= nextId
  /\ \A c \in Conns :
       /\ connId[c] # 0 => connId'[c] = connId[c]
       /\ (connId[c] = 0 /\ connId'[c] # 0) =>
            /\ \A d \in Conns : connId'[c] > connId[d]
            /\ connId'[c] \notin DOMAIN connections
            /\ nextId' > connId'[c]

\* C11: under any interleaving of concurrent connects the handles issued
\* are pairwise distinct and strictly increasing in allocation order, and
\* a handle is never issued again after its connection was removed.
C11_HandlesUnique == []C11_HandlesDistinct /\ [][C11_HandleStep]_vars

\* C11 witness: two connects ran concurrently, the later one was given its
\* handle first; the first handle issued was removed from the registry by
\* a close and the handle issued after it is registered.
C11_Witness ==
  /\ connId[2] = 1 /\ connId[1] = 2
  /\ 1 \notin DOMAIN connections /\ 2 \in DOMAIN connections
  /\ \E k \in Calls : callOp[k] = "close" /\ callId[k] = 1 /\ callPc[k] = "done"
                       /\ callRes[k] \in {"ok", "error"}


\* The handle was registered at some time: its connect is past the insert.
WasRegistered(id) ==
  \E c \in Conns : connId[c] = id /\ connPc[c] \in {"spawn", "settle", "done"}

\* The registry after the step is the registry before it without handle id.
RegistryWithout(id) ==
  /\ DOMAIN connections' = DOMAIN connections \ {id}
  /\ \A i \in DOMAIN connections' : connections'[i] = connections[i]

\* C12 (steps): a handle that was registered and is no longer, stays out of
\* the registry; a removal, by close or by the dispatcher, takes out its
\* own handle and nothing else, and changes nothing if the handle is
\* absent; an insert adds a handle the registry does not hold and leaves
\* the other entries as they are.
C12_RegistryStep ==
  /\ \A id \in Handles :
       (WasRegistered(id) /\ id \notin DOMAIN connections) =>
         id \notin DOMAIN connections'
  /\ \A c \in Conns :
       (dispPc[c] = "remove" /\ dispPc'[c] = "done") =>
         /\ RegistryWithout(connId[c])
         /\ connId[c] \notin DOMAIN connections => connections' = connections
  /\ \A k \in Calls :
       (callPc[k] = "remove" /\ callPc'[k] = "settle") =>
         /\ RegistryWithout(callId[k])
         /\ callId[k] \notin DOMAIN connections => connections' = connections
  /\ \A c \in Conns :
       (connPc[c] = "store_map" /\ connPc'[c] = "spawn") =>
         /\ connId[c] \notin DOMAIN connections
         /\ DOMAIN connections' = DOMAIN connections \cup {connId[c]}
         /\ connections'[connId[c]] = c
         /\ \A i \in DOMAIN connections : connections'[i] = connections[i]

\* C12 (states): a handle in the registry names the one connection it was
\* issued to; get_connection answers not-found exactly for the others.
C12_RegistryState ==
  \A id \in Handles :
    IF id \in DOMAIN connections
    THEN /\ get_connection(id) = connections[id]
         /\ connId[connections[id]] = id
         /\ \A c \in Conns : connId[c] = id => c = connections[id]
    ELSE get_connection(id) = 0

\* C12: a handle once removed is never found again, removing an absent
\* handle is a no-op, and an insert never overwrites an entry, so that at
\* most one connection is ever associated with a handle.
C12_Registry == []C12_RegistryState /\ [][C12_RegistryStep]_vars

\* C12 witness: the dispatcher of the first connection removed its handle;
\* a close that had found the handle before removed it again, as a no-op,
\* while the handle of the second connection stayed registered.
C12_Witness ==
  /\ dispPc[1] = "done"
  /\ callOp[1] = "close" /\ callConn[1] = 1 /\ callPc[1] = "done"
  /\ connId[1] \notin DOMAIN connections
  /\ connId[2] \in DOMAIN connections


\* The events of the given kinds in s, in order.
OfKinds(s, ks) == SelectSeq(s, LAMBDA e : e.kind \in ks)

\* C13: a failed read makes the pump enqueue one Error, then Close, and
\* read no more: the Error is the last event it made, it is in the pump's
\* hand, in the queue with nothing but Close behind it, or taken by the
\* dispatcher; a consumer with onError and onClose is handed that one
\* Error and then one Close, and the dispatcher does not leave its loop
\* before the Close has been handed.
C13_ReadError ==
  \A c \in Conns :
    LET errs == Count(observed[c], "Error")
        h == Handed(c)
        q == events[c] IN
    /\ errs <= 1
    /\ Count(h, "Error") <= errs
    /\ errs = 1 =>
         /\ observed[c][Len(observed[c])] = [kind |-> "Error", seq |-> nRead[c]]
         /\ pumpPc[c] \in {"send_err_415", "send_close_416", "send_close_422", "done"}
         /\ \A i \in 1..Len(q) :
              q[i].kind = "Error" =>
                /\ q[i].seq = nRead[c]
                /\ \A j \in (i + 1)..Len(q) : q[j].kind = "Close"
                /\ pumpPc[c] \in {"send_close_422", "done"} => i < Len(q)
         /\ onError[c] =>
              Count(h, "Error") + Count(q, "Error")
                + (IF pumpPc[c] = "send_err_415" THEN 1 ELSE 0) = 1
         /\ (onError[c] /\ onClose[c]) =>
              /\ IsPrefix(OfKinds(h, {"Error", "Close"}),
                          << [kind |-> "Error", seq |-> nRead[c]], CloseEvent >>)
              /\ dispPc[c] \in {"remove", "done"} =>
                   OfKinds(h, {"Error", "Close"}) =
                     << [kind |-> "Error", seq |-> nRead[c]], CloseEvent >>

\* C13 witness: a message was read and then the read failed; the consumer's
\* callbacks ran for the message, the Error and the Close, and the
\* dispatcher has ended.
C13_Witness ==
  /\ onError[1] /\ onClose[1]
  /\ Len(observed[1]) = 2 /\ observed[1][2].kind = "Error"
  /\ Len(delivered[1]) = 3
  /\ delivered[1][2].kind = "Error" /\ delivered[1][3].kind = "Close"
  /\ dispPc[1] = "done"


C15_CallbackThrows ==
  \A c \in Conns :
    thrown[c] # {} =>
      /\ permits[c] + MessagesInFlight(c) = SemaphoreNew
      /\ \A n \in thrown[c] :
           \E i \in 1..Len(delivered[c]) :
             delivered[c][i].seq = n /\ delivered[c][i].kind \in {"Text", "Binary"}
      /\ IsPrefix(NonClose(Handed(c)), Expected(c))
      /\ dispPc[c] \in {"remove", "done"} =>
           /\ pumpPc[c] = "done" /\ events[c] = <<>>
           /\ NonClose(Handed(c)) = Expected(c)
           /\ onClose[c] => Count(Handed(c), "Close") = 1
      /\ (dispPc[c] = "done" /\ chan[c] = <<>>) =>
           /\ permits[c] = SemaphoreNew
           /\ NonClose(delivered[c]) = Expected(c)

\* C15 witness: the first onMessage threw; the second message and the
\* Close were delivered after it, and the pool is full again.
C15_Witness ==
  /\ thrown[1] = {1}
  /\ onClose[1]
  /\ Len(delivered[1]) = 3 /\ delivered[1][2].kind = "Binary"
  /\ delivered[1][3].kind = "Close"
  /\ permits[1] = SemaphoreNew /\ dispPc[1] = "done"


\* The pump has read the end of the inbound stream: a Close frame, a read
\* error or the end of the stream.
StreamEnded(c) ==
  pumpPc[c] \in {"send_close_407", "send_err_415", "send_close_416",
                 "send_close_422", "done"}

\* Both tasks have ended and the handle is out of the registry.
TornDown(c) ==
  /\ pumpPc[c] = "done" /\ dispPc[c] = "done"
  /\ connId[c] \notin DOMAIN connections

\* C16: once the inbound stream of a connection has ended, and while the
\* JS thread keeps running the queued callbacks, the pump and the
\* dispatcher both end and the handle leaves the registry.
C16_EventuallyTornDown ==
  \A c \in ConnectsOf("stream") : StreamEnded(c) ~> TornDown(c)

\* C16 witness: the flooded connection, whose pump was blocked on the full
\* queue, ended with a read error, and both tasks are gone with the handle.
C16_Witness ==
  /\ mode = "flood"
  /\ Count(observed[1], "Error") = 1
  /\ TornDown(1)
  /\ Len(delivered[1]) > FloodFrames


\* The calls that hold the guard of connection c's sender: they are
\* writing to it.
Writers(c) == {k \in Calls : callPc[k] = "locked" /\ callConn[k] = c}

\* C17 (states): at most one call is writing to a connection's sender, and
\* it is the one that holds the lock.
C17_OneWriter ==
  \A c \in Conns :
    /\ Cardinality(Writers(c)) <= 1
    /\ Writers(c) = IF sender[c] = 0 THEN {} ELSE {sender[c]}

\* C17: the send_text, send_binary and close writes of one connection are
\* mutually exclusive, and a call waiting for the sender acquires it.
C17_SenderExclusive ==
  /\ []C17_OneWriter
  /\ \A k \in Calls : (callPc[k] = "spawned") ~> (callPc[k] = "locked")

\* C17 witness: a close holds the sender of the connection while a send
\* on the same handle waits for it.
C17_Witness ==
  /\ callOp[1] = "close" /\ callPc[1] = "locked"
  /\ callOp[2] = "send" /\ callPc[2] = "spawned"
  /\ callConn[1] = callConn[2]
  /\ sender[callConn[1]] = 1


\* This step is the session operation op.
SessionStep(op) == sessOps' = sessOps + 1 /\ sessCall'.op = op

\* C18 (steps): dropSession returns without an error; it takes its own
\* session out of the registry and leaves the others as they are, and on
\* an id that names no session it leaves the registry as it is.
C18_DropStep ==
  SessionStep("drop") =>
    LET sid == sessCall'.sid IN
    /\ sessCall'.res = "ok"
    /\ DOMAIN sessions' = DOMAIN sessions \ {sid}
    /\ \A i \in DOMAIN sessions' : sessions'[i] = sessions[i]
    /\ sid \notin DOMAIN sessions => sessions' = sessions
    /\ nextClient' = nextClient

\* C18 (states): after dropSession(id), a second dropSession(id) would
\* leave the state as the first left it.
C18_DropTwice ==
  sessCall.op = "drop" =>
    /\ sessCall.sid \notin DOMAIN sessions
    /\ DropManagedSessions(sessCall.sid) = sessions
    /\ DropSessionResult(sessCall.sid \in DOMAIN sessions) = sessCall.res

C19_CreateStep ==
  (SessionStep("create") /\ sessCall'.arg[1] \in DOMAIN sessions) =>
    /\ sessCall'.res = "ok"
    /\ sessCall'.handle = sessCall'.arg[1]
    /\ sessions' = sessions
    /\ nextClient' = nextClient

\* C19 (states): the handle createSession returns for a given sessionId is
\* that sessionId, at the first call as at the later ones, and it names a
\* registered session.
C19_CreateHandle ==
  (sessCall.op = "create" /\ sessCall.res = "ok") =>
    /\ sessCall.handle \in DOMAIN sessions
    /\ sessCall.arg[1] # 0 => sessCall.handle = sessCall.arg[1]

C20_ClearStep ==
  SessionStep("clear") =>
    LET sid == sessCall'.sid IN
      /\ nextClient' = nextClient
      /\ IF sid \in DOMAIN sessions
         THEN /\ sessCall'.res = "ok"
              /\ sessions' = [sessions EXCEPT ![sid].cookies = {}]
         ELSE /\ sessCall'.res = "not_found"
              /\ sessions' = sessions

\* C20 (states): a session's store holds, and a request under the session
\* sends, only cookies stored after the last clearSession of that session.
C20_NoCookieFromBeforeClear ==
  /\ \A sid \in DOMAIN sessions : \A k \in sessions[sid].cookies :
        k.stamp > lastClear[sid].op
  /\ sessCall.op = "request" =>
        \A k \in sessCall.sent : k.stamp > lastClear[sessCall.sid].op

C20_WitnessNotFound ==
  /\ sessCall.op = "clear" /\ sessCall.res = "not_found"
  /\ sessCall.sid \notin DOMAIN sessions
  /\ \E sid \in DOMAIN sessions : sessions[sid].cookies # {}


\* C21: the headers given to connect as a list of name/value pairs reach
\* the upgrade request as the same list: every pair, in the given order,
\* pairs of one name included.
C21_HeadersPreserved == hdrPc = "sent" => hdrSent = hdrGiven


\* The callback closures of connection c on the JS channel.
Callbacks(c) == SelectSeq(chan[c], LAMBDA x : x.kind # "settle")

C22_MessagesHoldCreditState ==
  \A c \in Conns : \A i \in 1..Len(chan[c]) :
    chan[c][i].kind # "settle" =>
      (chan[c][i].permit <=> chan[c][i].kind \in {"Text", "Binary"})

\* C22 as amended (steps): the step that hands a Text or Binary event to
\* the JS channel takes one credit that was available, the step that hands
\* an Error or a Close takes none, and a credit comes back only in the step
\* in which a Text or Binary callback has run.
C22_MessagesHoldCreditStep ==
  \A c \in Conns :
    /\ Len(chan'[c]) > Len(chan[c]) =>
         LET cl == chan'[c][Len(chan'[c])] IN
           IF cl.kind \in {"Text", "Binary"}
           THEN permits[c] > 0 /\ permits'[c] = permits[c] - 1
           ELSE permits'[c] = permits[c]
    /\ (dispPc[c] # "none" /\ permits'[c] > permits[c]) =>
         /\ permits'[c] = permits[c] + 1
         /\ Len(delivered'[c]) = Len(delivered[c]) + 1
         /\ delivered'[c][Len(delivered'[c])].kind \in {"Text", "Binary"}

C23_PumpCloses ==
  \A c \in Conns :
    /\ \A i \in 1..(Len(pushed[c]) - 1) :
         pushed[c][i].kind = "Close" => pushed[c][i + 1].kind = "Close"
    /\ Count(pushed[c], "Close") <= 2
    /\ pumpPc[c] = "done" => Count(pushed[c], "Close") >= 1
    /\ NonClose(pushed[c]) \in {observed[c], SubSeq(observed[c], 1, Len(observed[c]) - 1)}
    /\ Count(delivered[c], "Close") + Count(chan[c], "Close") <= 1

\* C23 witness: the pump read a message and then failed, pushed the Error
\* and two Close events and ended; the dispatcher has ended and the
\* consumer got the message, the Error and one Close.
C23_Witness ==
  /\ pumpPc[1] = "done" /\ dispPc[1] = "done"
  /\ Len(pushed[1]) = 4 /\ pushed[1][2].kind = "Error"
  /\ pushed[1][3].kind = "Close" /\ pushed[1][4].kind = "Close"
  /\ Len(delivered[1]) = 3 /\ Count(delivered[1], "Close") = 1

\* C23 witness of the other exit paths: the pump ended on a Close frame
\* with two Close events pushed, or at the end of the stream with one.
C23_WitnessExits ==
  /\ pumpPc[1] = "done" /\ observed[1] = <<>>
  /\ Len(pushed[1]) \in {1, 2}
  /\ dispPc[1] = "done" /\ Count(delivered[1], "Close") = 1


\* C24 (states): while the dispatcher of a connection with onClose has
\* dequeued no Close, no Close was handed before it left its loop, exactly
\* one is handed once it has left it, and the handle is registered for as
\* long as no Close has been handed.
C24_SynthesizedCloseState ==
  \A c \in Conns :
    (onClose[c] /\ ~close_emitted[c] /\ dispPc[c] # "none") =>
      LET n == Count(delivered[c], "Close") + Count(chan[c], "Close") IN
      /\ dispPc[c] \in {"recv", "acquire"} => n = 0
      /\ dispPc[c] \in {"remove", "done"} => n = 1
      /\ n = 0 => connId[c] \in DOMAIN connections

\* C24 (steps): the step in which the dispatcher finds the queue closed
\* without having dequeued a Close hands one Close to the JS channel and
\* leaves the registry alone; the handle is removed by a later step.
C24_SynthesizedCloseStep ==
  \A c \in Conns :
    (dispPc[c] = "recv" /\ dispPc'[c] = "remove" /\ ~close_emitted[c] /\ onClose[c]) =>
      /\ chan'[c] = Append(chan[c], Closure("Close", 0, FALSE))
      /\ connections' = connections
      /\ connId[c] \in DOMAIN connections

\* C24: if the queue is closed by the pump and the dispatcher has dequeued
\* no Close, the dispatcher hands exactly one Close to the consumer before
\* it ends, and removes the handle only after that.
C24_SynthesizedClose ==
  []C24_SynthesizedCloseState /\ [][C24_SynthesizedCloseStep]_vars

\* C24 witness: the pump ended after a message without pushing a Close;
\* the dispatcher has ended, the consumer got the message and one Close,
\* and the handle is gone.
C24_Witness ==
  /\ onClose[1] /\ ~close_emitted[1]
  /\ pumpPc[1] = "done" /\ dispPc[1] = "done"
  /\ Len(pushed[1]) = 1 /\ pushed[1][1].kind = "Text"
  /\ Len(delivered[1]) = 2 /\ delivered[1][2].kind = "Close"
  /\ connId[1] \notin DOMAIN connections

\* Without a pump that ends early the dispatcher never leaves its loop
\* before it has dequeued a Close.
C24_CloseAlwaysDequeued ==
  \A c \in Conns : dispPc[c] \in {"remove", "done"} => close_emitted[c]


\* The frame numbers of the events in a sequence (a Close has none).
SeqsOf(s) == {s[i].seq : i \in {j \in 1..Len(s) : s[j].kind # "Close"}}

\* C25 (states): no event, queued, handed or delivered, was made from a
\* Ping or a Pong, and the callbacks of the frames read around them are
\* handed in the order the frames were read, all of them once the
\* dispatcher has ended.
C25_PingPongState ==
  \A c \in Conns :
    pings[c] # {} =>
      /\ pings[c] \cap (SeqsOf(observed[c]) \cup SeqsOf(pushed[c]) \cup SeqsOf(events[c])
                          \cup SeqsOf(Handed(c))) = {}
      /\ pumpEv[c] # NoEvent => pumpEv[c].seq \notin pings[c]
      /\ IsPrefix(NonClose(Handed(c)), Expected(c))
      /\ dispPc[c] = "done" => NonClose(Handed(c)) = Expected(c)

\* C25 (steps): the step that reads a Ping or a Pong sends nothing, hands
\* nothing to the consumer and leaves the pump at the head of its read
\* loop.
C25_PingPongStep ==
  \A c \in Conns :
    pings'[c] # pings[c] =>
      /\ pumpPc'[c] = "read"
      /\ UNCHANGED <<events, pushed, observed, pumpEv, chan, delivered, dispVars>>

\* C25: a Ping or a Pong read by the pump is consumed without an event and
\* without ending the read loop; it causes no callback, and the frames
\* that follow it are delivered in order.
C25_PingPongIgnored == []C25_PingPongState /\ [][C25_PingPongStep]_vars

\* C25 witness: the first frame was a Ping or a Pong, the second a message
\* and the third a read error; the consumer got the message, the Error and
\* the Close, and nothing for the first frame.
C25_Witness ==
  /\ pings[1] = {1} /\ onError[1] /\ onClose[1]
  /\ dispPc[1] = "done"
  /\ Len(delivered[1]) = 3
  /\ delivered[1][1] = [kind |-> "Text", seq |-> 2]
  /\ delivered[1][2] = [kind |-> "Error", seq |-> 3]
  /\ delivered[1][3].kind = "Close"


\* C26 (states): the credits of a connection are conserved: those
\* available and those owned by the closures handed to the consumer that
\* have not run make up the pool, and the available count stays within
\* 0 and the pool size.
C26_CreditsConservedState ==
  \A c \in Conns :
    /\ permits[c] \in 0..WS_EVENT_BUFFER
    /\ dispPc[c] # "none" =>
         permits[c] + Len(SelectSeq(chan[c], LAMBDA x : x.permit)) = WS_EVENT_BUFFER

\* C26 (steps): a closure that owns a credit gives back exactly one when
\* it has run, whether its callback returned or threw, and the count
\* changes by one at a time.
C26_CreditsConservedStep ==
  \A c \in Conns :
    /\ (dispPc[c] # "none" /\ Len(delivered'[c]) > Len(delivered[c])) =>
         permits'[c] = permits[c] + (IF chan[c][1].permit THEN 1 ELSE 0)
    /\ dispPc[c] # "none" =>
         permits'[c] \in {permits[c] - 1, permits[c], permits[c] + 1}

\* C26: credits are conserved per connection, each acquired credit is
\* released exactly once, and a dispatcher waiting for a credit gets one
\* when the consumer runs callbacks.
C26_CreditsConserved ==
  /\ []C26_CreditsConservedState
  /\ [][C26_CreditsConservedStep]_vars
  /\ \A c \in ConnectsOf("stream") :
       (dispPc[c] = "acquire" /\ ~held) ~> (dispPc[c] # "acquire")

\* C26 witness: the pool was exhausted, the consumer ran callbacks, and the
\* dispatcher handed a further message with a credit that had come back.
C26_Witness ==
  /\ ~held /\ mode = "flood"
  /\ Len(delivered[1]) + MessagesInFlight(1) > WS_EVENT_BUFFER
  /\ permits[1] + MessagesInFlight(1) = WS_EVENT_BUFFER
  /\ dispPc[1] = "acquire"


=============================================================================
